---- MODULE Spec2Model ----
(***************************************************************************)
(* GitAssistant-Ollama: the retrieval pipeline.                            *)
(*   core/code_parser.py  CodeParser.chunk_text, CodeParser.parse_repository*)
(*   core/retriever.py    RAGRetriever (collection naming, build_index,     *)
(*                        retrieve)                                         *)
(*   core/embeddings.py   EmbeddingsGenerator                               *)
(*   app.py               the 'Clone & Index Repository', 'Clear Index' and *)
(*                        question handlers                                 *)
(* Two sessions (Streamlit runs each session's script in a thread of its   *)
(* own) work on one persistent store.  A call of the retriever is taken in *)
(* steps, each holding at most one call of the store, so that the calls of *)
(* the two sessions interleave between the count, the embedding and every  *)
(* insert of build_index.                                                  *)
(* The specifications share the variables:                                 *)
(*   SpecChunk     the chunker and the repository parse loop,               *)
(*   SpecChunkAny  the chunker under any chunk size and overlap,            *)
(*   SpecName      the collection-name function on its own,                 *)
(*   Spec          the retrievers of the two sessions over the store,       *)
(*   SpecRetrieve  first builds, then queries answered at any distance,     *)
(*   SpecMetric    first builds, then queries answered at distances >= 0,   *)
(*   SpecBatch     builds of document lists of more than one batch,         *)
(*   SpecRace      first builds on two collections side by side,            *)
(*   SpecApp       the 'Clone & Index Repository' and 'Clear Index'         *)
(*                 handlers over the sessions' retrievers,                  *)
(*   SpecAsk       sessions that index and then ask questions.              *)
(***************************************************************************)
EXTENDS Integers, Sequences, FiniteSets, TLC

VARIABLES
    \* ---- CodeParser (core/code_parser.py)
    chunk_size,     \* self.chunk_size
    chunk_overlap,  \* self.chunk_overlap
    repo,           \* the files scan_repository returns, with their content
    fileIdx,        \* position of parse_repository's for loop (1-based)
    documents,      \* parse_repository's local list `documents`
    caller,         \* who runs the chunker: "none", "api" (a direct call),
                    \* "parse" (parse_repository), "parsed" (it has returned)
    text,           \* chunk_text argument
    file_path,      \* chunk_text argument
    language,       \* chunk_text argument
    tokens,         \* chunk_text local `tokens`
    start,          \* chunk_text local `start`
    chunk_id,       \* chunk_text local `chunk_id`
    chunks,         \* chunk_text local `chunks` / its return value
    windows,        \* history: the slices tokens[start:end] taken, in order
    pc,             \* chunk_text position: "idle", "loop", "done"
    \* ---- RAGRetriever._get_collection_name (core/retriever.py)
    repo_name,      \* the argument, a sequence of characters
    name,           \* the returned collection name
    namePc,         \* "idle" before the call, "done" after it
    \* ---- RAGRetriever (core/retriever.py) and the persistent store
    \* Each session p has a retriever of its own; the store is shared.
    store,          \* the ChromaDB store: collection name -> its records, in order
    chroma_client,  \* p -> self.chroma_client is set
    collection,     \* p -> self.collection: None or the attached collection's name
    self_documents, \* p -> self.documents
    call,           \* p -> the call p's retriever is inside of: position, arguments, locals
    op,             \* the call that returned or raised in the step just taken (its
                    \* arguments, outcome, effects), NoOp when the step ended no call
    attempted,      \* the inserts of an id already stored attempted in the step just taken
    written,        \* history: which repository names' builds wrote into which collection
    \* ---- the page (app.py), one script run at a time per session
    session,        \* p -> st.session_state: indexed, and the retriever kept
    handler         \* p -> the 'Clone & Index Repository' run p's script is inside of

parserVars == <<chunk_size, chunk_overlap, repo, fileIdx, documents, caller,
                text, file_path, language, tokens, start, chunk_id, chunks,
                windows, pc>>

nameVars == <<repo_name, name, namePc>>

retrieverVars == <<store, chroma_client, collection, self_documents, call, op>>

raceVars == <<attempted, written>>

appVars == <<session, handler>>

vars == <<parserVars, nameVars, retrieverVars, raceVars, appVars>>

(***************************************************************************)
(* Bounds                                                                  *)
(***************************************************************************)
MaxTextLen == 4     \* characters in a file's content
MaxChunkSize == 3   \* largest configured chunk size tried
MaxFiles == 1       \* files in a scanned repository
MaxNameTail == 2    \* free characters at the end of a repository name
MaxDocs == 2        \* length of the short document lists given to build_index
DistDen == 2        \* distances are the multiples of 1/DistDen
MaxBatches == 2     \* batches of insert a long document list fills

Min(a, b) == IF a < b THEN a ELSE b

(***************************************************************************)
(* Texts and the tokenizer.  A text is a sequence of characters.  The      *)
(* encoder is a byte-pair encoder: greedy left-to-right, one merge rule    *)
(* (a, b) -> ab, so a token is one character or the pair "ab", and the     *)
(* number of tokens differs from the number of characters.  decode         *)
(* concatenates the tokens' characters.                                    *)
(***************************************************************************)
Alphabet == {"a", "b"}

SeqsUpTo(S, n) == UNION {[1..k -> S] : k \in 0..n}

Texts == SeqsUpTo(Alphabet, MaxTextLen)

RECURSIVE encode(_)
encode(t) ==
    IF t = <<>> THEN <<>>
    ELSE IF Len(t) >= 2 /\ t[1] = "a" /\ t[2] = "b"
         THEN <<SubSeq(t, 1, 2)>> \o encode(SubSeq(t, 3, Len(t)))
         ELSE <<SubSeq(t, 1, 1)>> \o encode(SubSeq(t, 2, Len(t)))

RECURSIVE decode(_)
decode(toks) ==
    IF toks = <<>> THEN <<>> ELSE Head(toks) \o decode(Tail(toks))

\* Python's s[lo:hi]: the elements at 0-based indices lo..hi-1, an index below
\* 0 counting from the end, both indices clipped to 0..len(s).
SliceIndex(k, n) == IF k < 0 THEN (IF k + n < 0 THEN 0 ELSE k + n) ELSE Min(k, n)

Slice(s, lo, hi) == SubSeq(s, SliceIndex(lo, Len(s)) + 1, SliceIndex(hi, Len(s)))

CodeDocument(content, path, lang, id) ==
    [content |-> content, file_path |-> path, language |-> lang, chunk_id |-> id]

(***************************************************************************)
(* Characters of a repository name.  Each stands for a class of Python     *)
(* characters, told apart by str.isalnum and str.lower:                    *)
(*   "a" "r" "e" "p" "o" "i"  ASCII lower-case letters                      *)
(*   "A"        an ASCII upper-case letter (lower: "a")                     *)
(*   "7"        an ASCII digit                                              *)
(*   "-" "." "_"  kept punctuation;  "/"  any other ASCII character         *)
(*   "U+00E9"   e with acute: alphanumeric, lower-case, not ASCII           *)
(*   "U+0130"   capital I with dot above: alphanumeric; its lower() is the *)
(*              two characters "i", "U+0307"                                *)
(*   "U+0307"   combining dot above: not alphanumeric                       *)
(***************************************************************************)
NameChars == {"a", "A", "7", "-", ".", "_", "/", "U+00E9", "U+0130"}

\* str.isalnum
IsAlnum(c) == c \in {"a", "r", "e", "p", "o", "i", "A", "7", "U+00E9", "U+0130"}

\* str.lower of one character
Lower(c) ==
    IF c = "A" THEN <<"a">>
    ELSE IF c = "U+0130" THEN <<"i", "U+0307">>
    ELSE <<c>>

\* str.lower of a string
RECURSIVE LowerStr(_)
LowerStr(s) == IF s = <<>> THEN <<>> ELSE Lower(Head(s)) \o LowerStr(Tail(s))

\* str.replace(old, new) for single characters
Replace(s, old, new) == [i \in 1..Len(s) |-> IF s[i] = old THEN new ELSE s[i]]

\* line 35: c.isalnum() or c in "_-."
Kept(c) == IsAlnum(c) \/ c \in {"_", "-", "."}

\* line 36: name[:63]
MaxNameLen == 63

\* RAGRetriever._get_collection_name, lines 34-36
GetCollectionName(r) ==
    LET prefixed == <<"r", "e", "p", "o", "_">> \o r
        replaced == Replace(Replace(prefixed, "-", "_"), ".", "_")
        filtered == SelectSeq(replaced, Kept)
    IN  LowerStr(Slice(filtered, 0, MaxNameLen))

\* Repository names: a run of "a" (none, or enough to reach the cap of 63
\* after the 5 characters of "repo_") followed by up to MaxNameTail characters.
PadLens == {0, 57, 58}
RepoNameInputs ==
    {[i \in 1..p |-> "a"] \o t : p \in PadLens, t \in SeqsUpTo(NameChars, MaxNameTail)}

None == "None"

\* The sessions: each is a browser session of the page, or a caller of the
\* API, with a retriever of its own over the shared ChromaDB directory.
Instances == {1, 2}

\* The record of a call: its arguments, how far it has come, the error it
\* raised ("none" when it returned), and what it did on the way.
NoOp ==
    [name |-> "none",
     by |-> 0,               \* the session whose call it is
     pc |-> "idle",          \* "idle": no call; "count", "embed", "add", "query":
                             \* the call's next step; "done": it returned or raised;
                             \* "context": app, the retrieve of line 304 returned
                             \* and the one of get_context_for_query is to come
     repo |-> <<>>, docs |-> <<>>, query |-> <<>>, top_k |-> 0,
     collection_name |-> <<>>,  \* the argument of collection_exists
     error |-> "none",
     existing_count |-> -1,  \* the count read at line 79, -1 when not read
     init_calls |-> 0,       \* calls of _init_client
     embed_calls |-> 0,      \* calls of EmbeddingsGenerator._embed
     embed_fault |-> 0,      \* the number of the _embed call the service failed, 0: none
     embeddings |-> <<>>,    \* build_index local `embeddings`
     i |-> 0,                \* build_index: the offset of the next batch (line 107)
     adds |-> <<>>,          \* the slices <<i, end>> passed to collection.add
     overlapped |-> FALSE,   \* history: while this build was in flight another
                             \* build was in flight on the same collection
     the_collection |-> None,   \* retrieve: self.collection of the retriever it runs on
     n_results |-> -1,       \* n_results of collection.query, -1 when not queried
     hits |-> <<>>,          \* the ids of the records the index returned, in its order
     distances |-> <<>>,     \* the distances the index returned
     result |-> <<>>,        \* the value returned
     context |-> FALSE,      \* retrieve: called by get_context_for_query (line 154)
     exists |-> FALSE,       \* the value collection_exists returned
     force_rebuild |-> FALSE,   \* app: the 'Force rebuild' checkbox
     use_cache |-> FALSE,       \* app: the 'Use cache' checkbox
     delete_error |-> "none",   \* app: what the call of delete_collection raised
     loaded_from_cache |-> FALSE,  \* app: the handler took 'Using cached index!'
     held |-> FALSE]         \* app, history: the collection held records at the click

\* A retriever object: the fields __init__ sets (lines 22-24).
NewRetriever == [chroma_client |-> FALSE, collection |-> None, documents |-> <<>>]

RetrieverIdle ==
    /\ store = <<>>
    /\ chroma_client = [p \in Instances |-> FALSE]
    /\ collection = [p \in Instances |-> None]
    /\ self_documents = [p \in Instances |-> <<>>]
    /\ call = [p \in Instances |-> NoOp]
    /\ op = NoOp

RaceIdle ==
    /\ attempted = {}
    /\ written = {}

\* A script run that is not inside the 'Clone & Index Repository' handler.
NoHandler ==
    [pc |-> "idle",          \* "idle", "check" (line 139), "count" (line 140),
                             \* "build" (line 152), "building" (inside build_index)
     repo |-> <<>>,
     force_rebuild |-> FALSE, use_cache |-> FALSE,
     init_calls |-> 0,       \* calls of _init_client made by the handler itself
     delete_error |-> "none",   \* what the call of delete_collection raised
     held |-> FALSE]         \* history: the collection held records at the click

\* st.session_state of a session that has indexed nothing: retriever is None.
NoSession == [indexed |-> FALSE, retriever |-> NewRetriever]

AppIdle ==
    /\ session = [p \in Instances |-> NoSession]
    /\ handler = [p \in Instances |-> NoHandler]

NameIdle ==
    /\ repo_name = <<>>
    /\ name = <<>>
    /\ namePc = "idle"

ParserIdle ==
    /\ chunk_size = 1
    /\ chunk_overlap = 0
    /\ repo = <<>>
    /\ fileIdx = 1
    /\ documents = <<>>
    /\ caller = "none"
    /\ text = <<>>
    /\ file_path = <<"file", 0>>
    /\ language = "text"
    /\ tokens = <<>>
    /\ start = 0
    /\ chunk_id = 0
    /\ chunks = <<>>
    /\ windows = <<>>
    /\ pc = "idle"

\* A call of _get_collection_name(repo_name).
CallGetCollectionName ==
    /\ namePc = "idle"
    /\ name' = GetCollectionName(repo_name)
    /\ namePc' = "done"
    /\ UNCHANGED <<repo_name, parserVars, retrieverVars, raceVars, appVars>>

InitName ==
    /\ ParserIdle
    /\ repo_name \in RepoNameInputs
    /\ name = <<>>
    /\ namePc = "idle"
    /\ RetrieverIdle
    /\ RaceIdle
    /\ AppIdle

NextName == CallGetCollectionName

SpecName == InitName /\ [][NextName]_vars

(***************************************************************************)
(* CodeParser.chunk_text                                                   *)
(***************************************************************************)
\* line 61: if len(tokens) <= self.chunk_size
ShortcutUnlessEmpty(n, size) == n > 0 /\ n <= size
Shortcut(n, size) == n <= size

\* line 75: start = end - self.chunk_overlap
NextStartNoOverlap(end, overlap) == end
NextStartOneBack(end, overlap) == end - overlap - 1
NextStart(end, overlap) == end - overlap

\* line 76: chunk_id += 1
NextChunkIdStuck(id) == id
NextChunkId(id) == id + 1

\* line 78: if start >= len(tokens) - self.chunk_overlap: break
BreakBeforeTail(s, n, size, overlap) == s >= n - size
Break(s, n, size, overlap) == s >= n - overlap

\* lines 58-66: encode, the single-chunk shortcut, the loop's initialisation.
ChunkTextEnter(t, path, lang) ==
    /\ text' = t
    /\ file_path' = path
    /\ language' = lang
    /\ tokens' = encode(t)
    /\ windows' = <<>>
    /\ start' = 0
    /\ chunk_id' = 0
    /\ IF Shortcut(Len(encode(t)), chunk_size)
       THEN /\ chunks' = <<CodeDocument(t, path, lang, 0)>>
            /\ pc' = "done"
       ELSE /\ chunks' = <<>>
            /\ pc' = "loop"

\* chunk_text called directly on the content of a file of the repository
\* (no filtering of the content before the call).
ChunkTextCall ==
    /\ caller = "none"
    /\ pc = "idle"
    /\ \E i \in 1..Len(repo) :
          ChunkTextEnter(repo[i].content, repo[i].path, repo[i].language)
    /\ caller' = "api"
    /\ UNCHANGED <<chunk_size, chunk_overlap, repo, fileIdx, documents>>
    /\ UNCHANGED <<nameVars, retrieverVars, raceVars, appVars>>

\* lines 68-79: one iteration of the while loop (or its exit at the head).
ChunkLoop ==
    /\ pc = "loop"
    /\ IF start < Len(tokens)
       THEN LET end == start + chunk_size
                chunk_tokens == Slice(tokens, start, end)
                newStart == NextStart(end, chunk_overlap)
            IN  /\ chunks' = Append(chunks,
                        CodeDocument(decode(chunk_tokens), file_path, language, chunk_id))
                /\ windows' = Append(windows,
                        [lo |-> start, hi |-> Min(end, Len(tokens)), toks |-> chunk_tokens])
                /\ start' = newStart
                /\ chunk_id' = NextChunkId(chunk_id)
                /\ pc' = IF Break(newStart, Len(tokens), chunk_size, chunk_overlap)
                         THEN "done" ELSE "loop"
       ELSE /\ pc' = "done"
            /\ UNCHANGED <<chunks, windows, start, chunk_id>>
    /\ UNCHANGED <<chunk_size, chunk_overlap, repo, fileIdx, documents, caller,
                   text, file_path, language, tokens>>
    /\ UNCHANGED <<nameVars, retrieverVars, raceVars, appVars>>

(***************************************************************************)
(* CodeParser.parse_repository                                             *)
(***************************************************************************)
\* line 93: if not content: continue
NeverSkip(content) == FALSE
SkipContent(content) == content = <<>>

\* lines 85-88: documents = [], files = scan_repository(repo_path)
ParseStart ==
    /\ caller = "none"
    /\ pc = "idle"
    /\ caller' = "parse"
    /\ fileIdx' = 1
    /\ documents' = <<>>
    /\ UNCHANGED <<chunk_size, chunk_overlap, repo, text, file_path, language,
                   tokens, start, chunk_id, chunks, windows, pc>>
    /\ UNCHANGED <<nameVars, retrieverVars, raceVars, appVars>>

\* lines 90-99: the loop body up to the call of chunk_text.
ParseFile ==
    /\ caller = "parse"
    /\ pc = "idle"
    /\ fileIdx <= Len(repo)
    /\ LET f == repo[fileIdx]
       IN  IF SkipContent(f.content)
           THEN /\ fileIdx' = fileIdx + 1
                /\ UNCHANGED <<text, file_path, language, tokens, start,
                               chunk_id, chunks, windows, pc>>
           ELSE /\ ChunkTextEnter(f.content, f.path, f.language)
                /\ UNCHANGED fileIdx
    /\ UNCHANGED <<chunk_size, chunk_overlap, repo, documents, caller>>
    /\ UNCHANGED <<nameVars, retrieverVars, raceVars, appVars>>

\* line 100: documents.extend(chunks), then the next file.
ParseExtend ==
    /\ caller = "parse"
    /\ pc = "done"
    /\ documents' = documents \o chunks
    /\ fileIdx' = fileIdx + 1
    /\ pc' = "idle"
    /\ UNCHANGED <<chunk_size, chunk_overlap, repo, caller, text, file_path,
                   language, tokens, start, chunk_id, chunks, windows>>
    /\ UNCHANGED <<nameVars, retrieverVars, raceVars, appVars>>

\* line 107: return documents
ParseReturn ==
    /\ caller = "parse"
    /\ pc = "idle"
    /\ fileIdx > Len(repo)
    /\ caller' = "parsed"
    /\ UNCHANGED <<chunk_size, chunk_overlap, repo, fileIdx, documents, text,
                   file_path, language, tokens, start, chunk_id, chunks, windows, pc>>
    /\ UNCHANGED <<nameVars, retrieverVars, raceVars, appVars>>

\* The files a scan hands over: file i has path <<"file", i>>.
Repos ==
    UNION {{[i \in 1..k |-> [path |-> <<"file", i>>, content |-> c[i], language |-> "text"]]
              : c \in [1..k -> Texts]} : k \in 0..MaxFiles}

InitChunk ==
    /\ chunk_size \in 1..MaxChunkSize
    /\ chunk_overlap \in 0..(chunk_size - 1)
    /\ repo \in Repos
    /\ fileIdx = 1
    /\ documents = <<>>
    /\ caller = "none"
    /\ text = <<>>
    /\ file_path = <<"file", 0>>
    /\ language = "text"
    /\ tokens = <<>>
    /\ start = 0
    /\ chunk_id = 0
    /\ chunks = <<>>
    /\ windows = <<>>
    /\ pc = "idle"
    /\ NameIdle
    /\ RetrieverIdle
    /\ RaceIdle
    /\ AppIdle

NextChunk ==
    \/ ChunkTextCall
    \/ ChunkLoop
    \/ ParseStart
    \/ ParseFile
    \/ ParseExtend
    \/ ParseReturn

SpecChunk == InitChunk /\ [][NextChunk]_vars

(***************************************************************************)
(* chunk_text under any configuration: chunk_size and chunk_overlap are    *)
(* attributes __init__ copies from Settings without a check, so the        *)
(* overlap may be the chunk size or more.  The loop is followed for        *)
(* MaxLoop iterations, more than any text here needs when it terminates.   *)
(***************************************************************************)
MaxLoop == MaxTextLen + 2

ChunkLoopBounded ==
    /\ Len(chunks) < MaxLoop
    /\ ChunkLoop

InitChunkAny ==
    /\ chunk_size \in 1..MaxChunkSize
    /\ chunk_overlap \in 0..(MaxChunkSize + 1)
    /\ repo \in {r \in Repos : Len(r) = 1}
    /\ fileIdx = 1
    /\ documents = <<>>
    /\ caller = "none"
    /\ text = <<>>
    /\ file_path = <<"file", 0>>
    /\ language = "text"
    /\ tokens = <<>>
    /\ start = 0
    /\ chunk_id = 0
    /\ chunks = <<>>
    /\ windows = <<>>
    /\ pc = "idle"
    /\ NameIdle
    /\ RetrieverIdle
    /\ RaceIdle
    /\ AppIdle

NextChunkAny ==
    \/ ChunkTextCall
    \/ ChunkLoopBounded

\* A call of chunk_text runs on: the loop takes its next iteration.
SpecChunkAny ==
    InitChunkAny /\ [][NextChunkAny]_vars /\ WF_vars(ChunkLoopBounded)

(***************************************************************************)
(* The embedding service and the ChromaDB store                            *)
(***************************************************************************)
\* EmbeddingsGenerator._embed: the service's vector for a text, the same for
\* the same text.  Two features stand for the model's dimensions.
Embed(t) == <<Len(t), Cardinality({i \in 1..Len(t) : t[i] = "a"})>>

\* EmbeddingsGenerator.generate_embeddings(texts), embeddings.py lines 43-46:
\* one _embed call per text, in order; the call number failAt (0: none) is
\* answered with a bad status and raises.  The value without a raise, as
\* generate_embeddings would give it if it put a zero vector for the failed text:
GenerateEmbeddingsZeroVector(texts, failAt) ==
    [error |-> "none", calls |-> Len(texts),
     embeddings |-> [i \in 1..Len(texts) |->
                        IF i = failAt THEN <<0, 0>> ELSE Embed(texts[i])]]

GenerateEmbeddings(texts, failAt) ==
    IF failAt \in 1..Len(texts)
    THEN [error |-> "embedding", calls |-> failAt, embeddings |-> <<>>]
    ELSE [error |-> "none", calls |-> Len(texts),
          embeddings |-> [i \in 1..Len(texts) |-> Embed(texts[i])]]

\* Collections of the store.
Exists(st, cn) == cn \in DOMAIN st

\* chroma_client.get_or_create_collection(name): the store afterwards.
GetOrCreate(st, cn) ==
    IF Exists(st, cn) THEN st
    ELSE [c \in DOMAIN st \cup {cn} |-> IF c = cn THEN <<>> ELSE st[c]]

\* What the store does with an id it already holds is the backend's choice:
\* it raises, or it skips the record silently.
DuplicatePolicies == {"raise", "skip"}

\* The choice matters only for a collection that holds records.
DuplicatePoliciesFor(st, cn) ==
    IF Exists(st, cn) /\ st[cn] # <<>> THEN DuplicatePolicies ELSE {"raise"}

Ids(recs) == {recs[i].id : i \in 1..Len(recs)}

\* The record r has none of the ids `held`.
HasNewId(held, r) == r.id \notin held

\* collection.add(ids, documents, metadatas, embeddings) on the records `recs`.
StoreAddNotKept(recs, batch, dup) == [error |-> "none", recs |-> recs]
StoreAdd(recs, batch, dup) ==
    LET held == Ids(recs)
        given == Ids(batch)
    IN  IF Cardinality(given) # Len(batch)
        THEN [error |-> "storage", recs |-> recs]
        ELSE IF given \cap held # {}
        THEN IF dup = "raise"
             THEN [error |-> "storage", recs |-> recs]
             ELSE [error |-> "none",
                   recs |-> recs \o SelectSeq(batch, LAMBDA r : HasNewId(held, r))]
        ELSE [error |-> "none", recs |-> recs \o batch]

(***************************************************************************)
(* The retriever's calls, step by step.  A call of session p goes on in    *)
(* steps, each holding at most one call of the store                       *)
(* (get_or_create_collection, count, add, query) with the local work and   *)
(* the calls of the embedding service around it; between two steps the     *)
(* other session may take steps of its own.  A step is written as the      *)
(* values it leaves: the store, p's retriever, p's call, the histories.    *)
(***************************************************************************)
\* The retriever of session p.
Self(p) ==
    [chroma_client |-> chroma_client[p],
     collection |-> collection[p],
     documents |-> self_documents[p]]

\* A step of session p that changes nothing.
Keep(p) ==
    [store |-> store, self |-> Self(p), call |-> call[p],
     attempted |-> {}, written |-> written]

\* Session p is inside no call.
Idle(p) == call[p].pc = "idle"

\* RAGRetriever.__init__, lines 20-30: EmbeddingsGenerator() asks the service
\* for the embedding of "test" (embeddings.py lines 21-26) and raises what the
\* service raises; then the fields are set.  When it raises there is no new
\* retriever and the session keeps the one it had.
Construct(p, ok) ==
    LET made == [NoOp EXCEPT !.name = "__init__", !.by = p, !.pc = "done",
                             !.embed_calls = 1]
    IN  IF ok
        THEN [Keep(p) EXCEPT !.self = NewRetriever, !.call = made]
        ELSE [Keep(p) EXCEPT !.call = [made EXCEPT !.error = "embedding",
                                                   !.embed_fault = 1]]

\* The failures _init_client can meet: none; PersistentClient raises;
\* get_or_create_collection raises.
InitFailures == {"none", "client", "collection"}

\* RAGRetriever._init_client(collection_name), lines 38-62, on the retriever
\* `self` over the store `st`.
InitClient(self, st, cn, f) ==
    IF f = "client"
    THEN [error |-> "storage", self |-> self, store |-> st]
    ELSE IF f = "collection"
    THEN [error |-> "storage", self |-> [self EXCEPT !.chroma_client = TRUE],
          store |-> st]
    ELSE [error |-> "none",
          self |-> [self EXCEPT !.chroma_client = TRUE, !.collection = cn],
          store |-> GetOrCreate(st, cn)]

\* Line 68: return self.collection.count() > 0, and lines 69-70 when the
\* count raises (`fail`), in the call c of session p.
CollectionExistsCount(p, c, fail) ==
    IF fail
    THEN [Keep(p) EXCEPT !.call = [c EXCEPT !.pc = "done"]]
    ELSE [Keep(p) EXCEPT
             !.call = [c EXCEPT !.existing_count = Len(store[collection[p]]),
                                !.exists = Len(store[collection[p]]) > 0,
                                !.pc = "done"]]

\* RAGRetriever.collection_exists(collection_name), lines 64-70.  The name is
\* used as it is given.  Lines 66-67, and line 68 when the retriever is
\* attached already; an exception makes the call return False.
CollectionExistsStart(p, cn, f, fail) ==
    LET made == [NoOp EXCEPT !.name = "collection_exists", !.by = p,
                             !.collection_name = cn]
        init == InitClient(Self(p), store, cn, f)
    IN  IF collection[p] = None
        THEN IF init.error # "none"
             THEN [Keep(p) EXCEPT !.self = init.self,
                      !.call = [made EXCEPT !.init_calls = 1, !.pc = "done"]]
             ELSE [Keep(p) EXCEPT !.self = init.self, !.store = init.store,
                      !.call = [made EXCEPT !.init_calls = 1, !.pc = "count"]]
        ELSE CollectionExistsCount(p, made, fail)

(***************************************************************************)
(* RAGRetriever.build_index                                                *)
(***************************************************************************)
\* line 73: if not documents
NoCheckOfDocuments(docs) == FALSE
EmptyInput(docs) == docs = <<>>

\* line 80: if existing_count > 0
CacheHitAlways(existing_count) == existing_count >= 0
CacheHitNever(existing_count) == FALSE
CacheHitOverOne(existing_count) == existing_count > 1
CacheHit(existing_count) == existing_count > 0

\* line 93: f"doc_{idx}"
DocId(idx) == <<"doc", idx>>

\* line 106
batch_size == 500

\* line 108: end = min(i + batch_size, len(documents))
BatchEndNoMin(i, n) == i + batch_size
BatchEnd(i, n) == Min(i + batch_size, n)

\* lines 92-104 and the arguments of collection.add: the record of documents[idx]
\* (idx 0-based).
RecordOf(docs, idx) ==
    [id |-> DocId(idx),
     document |-> docs[idx + 1].content,
     metadata |-> [file_path |-> docs[idx + 1].file_path,
                   language |-> docs[idx + 1].language,
                   chunk_id |-> docs[idx + 1].chunk_id],
     embedding |-> Embed(docs[idx + 1].content)]

\* The repository names given to the retriever: two that differ only in "-"
\* and ".".
RepoNamePool == {<<"a", "-", "a">>, <<"a", ".", "a">>}

\* The repository names of all specifications: those two and a third.
RepoNames == RepoNamePool \cup {<<"e">>}

\* line 76: self._get_collection_name(repo_name), tabulated over these names.
CollectionNameOf == [r \in RepoNames |-> GetCollectionName(r)]

\* Session q is inside a build_index that is past the cache-hit return of
\* lines 79-85 and has not ended: a build in flight.
InFlight(q) == call[q].name = "build_index" /\ call[q].pc \in {"embed", "add"}

\* Another session's build is in flight on the collection cn.
OtherInFlight(p, cn) == \E q \in Instances \ {p} : InFlight(q) /\ collection[q] = cn

\* build_index(documents, repo_name), lines 73-77: the empty-input check, the
\* collection name and _init_client.
BuildStart(p, r, docs, f) ==
    LET made == [NoOp EXCEPT !.name = "build_index", !.by = p, !.repo = r,
                             !.docs = docs]
        init == InitClient(Self(p), store, CollectionNameOf[r], f)
    IN  IF EmptyInput(docs)
        THEN [Keep(p) EXCEPT
                 !.call = [made EXCEPT !.pc = "done",
                              !.error = "ValueError: No documents provided for indexing"]]
        ELSE IF init.error # "none"
        THEN [Keep(p) EXCEPT !.self = init.self,
                 !.call = [made EXCEPT !.init_calls = 1, !.pc = "done",
                                       !.error = init.error]]
        ELSE [Keep(p) EXCEPT !.self = init.self, !.store = init.store,
                 !.call = [made EXCEPT !.init_calls = 1, !.pc = "count"]]

\* Lines 79-101: the count, the cache-hit return, or else self.documents and
\* the lists of ids, contents and metadatas.  `fail`: the count raises.
BuildCount(p, fail) ==
    LET cn == collection[p]
        existing_count == Len(store[cn])
        counted == [call[p] EXCEPT !.existing_count = existing_count]
        self == [Self(p) EXCEPT !.documents = call[p].docs]
    IN  IF fail
        THEN [Keep(p) EXCEPT
                 !.call = [call[p] EXCEPT !.pc = "done", !.error = "storage"]]
        ELSE IF CacheHit(existing_count)
        THEN [Keep(p) EXCEPT !.self = self, !.call = [counted EXCEPT !.pc = "done"]]
        ELSE [Keep(p) EXCEPT !.self = self,
                 !.call = [counted EXCEPT !.pc = "embed",
                                          !.overlapped = OtherInFlight(p, cn)]]

\* Lines 104-107: generate_embeddings(contents), one call of the service per
\* document, of which the call number failAt (0: none) fails; then the head of
\* the insert loop, range(0, len(documents), batch_size).
BuildEmbed(p, failAt) ==
    LET docs == call[p].docs
        contents == [k \in 1..Len(docs) |-> docs[k].content]
        embedded == GenerateEmbeddings(contents, failAt)
        tried == [call[p] EXCEPT !.embed_calls = embedded.calls,
                                 !.embed_fault = failAt]
    IN  IF embedded.error # "none"
        THEN [Keep(p) EXCEPT
                 !.call = [tried EXCEPT !.pc = "done", !.error = embedded.error]]
        ELSE [Keep(p) EXCEPT
                 !.call = [tried EXCEPT !.pc = IF Len(docs) > 0 THEN "add" ELSE "done",
                                        !.i = 0,
                                        !.embeddings = embedded.embeddings]]

\* Lines 107-114: one iteration of the insert loop, at offset i.  `fail`: the
\* store fails the insert for a reason of its own.
BuildAddBatch(p, fail, dup) ==
    LET c == call[p]
        cn == collection[p]
        n == Len(c.docs)
        end == BatchEnd(c.i, n)
        new == [k \in 1..n |-> [RecordOf(c.docs, k - 1) EXCEPT
                                   !.embedding = c.embeddings[k]]]
        batch == Slice(new, c.i, end)
        added == StoreAdd(store[cn], batch, dup)
        tried == [Keep(p) EXCEPT
                     !.attempted =
                         {[cn |-> cn, id |-> id, observed |-> c.existing_count,
                           overlapped |-> c.overlapped]
                             : id \in Ids(batch) \cap Ids(store[cn])}]
    IN  IF fail
        THEN [tried EXCEPT !.call = [c EXCEPT !.pc = "done", !.error = "storage"]]
        ELSE IF added.error # "none"
        THEN [tried EXCEPT !.call = [c EXCEPT !.pc = "done", !.error = added.error]]
        ELSE [tried EXCEPT
                 !.store = [store EXCEPT ![cn] = added.recs],
                 !.written = IF added.recs # store[cn]
                             THEN written \cup {[cn |-> cn, repo |-> c.repo]}
                             ELSE written,
                 !.call = [c EXCEPT !.adds = Append(c.adds, <<c.i, end>>),
                                    !.i = c.i + batch_size,
                                    !.pc = IF c.i + batch_size >= n
                                           THEN "done" ELSE "add"]]

(***************************************************************************)
(* RAGRetriever.retrieve                                                   *)
(***************************************************************************)
\* line 119: if not self.collection
NoCheckOfCollection(c) == FALSE
NotAttached(c) == c = None

\* config/settings.py, TOP_K_RESULTS
TOP_K_RESULTS == 5

\* Distances are integers in units of 1/DistDen and similarities in units of
\* 1/SimDen, so that 1 - d^2/2 = (SimDen - k^2)/SimDen for d = k/DistDen.
SimDen == 2 * DistDen * DistDen

\* Python's min and max of two numbers.
PyMin(a, b) == IF b < a THEN b ELSE a
PyMax(a, b) == IF b > a THEN b ELSE a

\* line 138: max(0.0, min(1.0, 1 - (dist**2 / 2)))
SimilarityNoFloor(k) == PyMin(SimDen, SimDen - k * k)
SimilarityOfCloseness(k) == PyMax(0, PyMin(SimDen, k * k))
Similarity(k) == PyMax(0, PyMin(SimDen, SimDen - k * k))

\* The failures a retrieve can meet: none, the _embed call raises, the count
\* raises, the query raises.
RetrieveFailures == {"none", "embed", "count", "query"}

\* RAGRetriever.retrieve(query, top_k), lines 119-128, on a retriever whose
\* self.collection is c: the check, the embedding of the query, and the count
\* that is an argument of the query.  top_k = 0 stands for an omitted (None)
\* or zero top_k.
RetrieveStart(p, c, q, top_k, f) ==
    LET made == [NoOp EXCEPT !.name = "retrieve", !.by = p, !.query = q,
                             !.top_k = top_k, !.the_collection = c]
        k == IF top_k = 0 THEN TOP_K_RESULTS ELSE top_k
        embedded == [made EXCEPT !.embed_calls = 1]
    IN  IF NotAttached(c)
        THEN [Keep(p) EXCEPT
                 !.call = [made EXCEPT !.pc = "done",
                              !.error = "ValueError: Collection not initialized"]]
        ELSE IF f = "embed"
        THEN [Keep(p) EXCEPT
                 !.call = [embedded EXCEPT !.pc = "done", !.error = "embedding",
                                           !.embed_fault = 1]]
        ELSE IF c = None
        THEN [Keep(p) EXCEPT
                 !.call = [embedded EXCEPT !.pc = "done", !.error = "AttributeError"]]
        ELSE IF f = "count"
        THEN [Keep(p) EXCEPT
                 !.call = [embedded EXCEPT !.pc = "done", !.error = "storage"]]
        ELSE [Keep(p) EXCEPT
                 !.call = [embedded EXCEPT !.pc = "query",
                              !.existing_count = Len(store[c]),
                              !.n_results = Min(k, Len(store[c]))]]

\* Lines 126-151: the query and the list made of its answer.  The index
\* answers with n_results records: the records from position `first` on, in
\* stored order (wrapping around), at the distances base, base + stp,
\* base + 2 stp, ...
RetrieveQuery(p, f, first, base, stp) ==
    LET c == call[p]
        recs == store[c.the_collection]
        count == Len(recs)
        n == c.n_results
        hit(j) == recs[((first + j - 2) % count) + 1]
        dist == [j \in 1..n |-> base + (j - 1) * stp]
    IN  IF f = "query"
        THEN [Keep(p) EXCEPT !.call = [c EXCEPT !.pc = "done", !.error = "storage"]]
        ELSE [Keep(p) EXCEPT
                 !.call = [c EXCEPT
                    !.pc = "done",
                    !.hits = [j \in 1..n |-> hit(j).id],
                    !.distances = dist,
                    !.result = [j \in 1..n |->
                        [doc |-> CodeDocument(hit(j).document,
                                              hit(j).metadata.file_path,
                                              hit(j).metadata.language,
                                              hit(j).metadata.chunk_id),
                         similarity |-> Similarity(dist[j])]]]]

(***************************************************************************)
(* A step taken                                                            *)
(***************************************************************************)
\* The step `out` of session p puts p's build in flight on the collection a
\* build of session q is in flight on.
Overlaps(q, p, out) ==
    /\ InFlight(q)
    /\ out.call.name = "build_index"
    /\ out.call.pc = "embed"
    /\ call[p].pc = "count"
    /\ out.self.collection = collection[q]

\* The retrievers, the store and the histories after the step `out` of p.
TakeState(p, out) ==
    /\ store' = out.store
    /\ chroma_client' = [chroma_client EXCEPT ![p] = out.self.chroma_client]
    /\ collection' = [collection EXCEPT ![p] = out.self.collection]
    /\ self_documents' = [self_documents EXCEPT ![p] = out.self.documents]
    /\ attempted' = out.attempted
    /\ written' = out.written

\* The calls after the step `out` of p: p's call goes on or is over.
TakeCall(p, out) ==
    call' = [q \in Instances |->
                IF q = p
                THEN IF out.call.pc = "done" THEN NoOp ELSE out.call
                ELSE IF Overlaps(q, p, out)
                THEN [call[q] EXCEPT !.overlapped = TRUE]
                ELSE call[q]]

\* A step of a call made on the retriever directly; a call that is over is
\* the call that returned or raised in this step.
Take(p, out) ==
    /\ TakeState(p, out)
    /\ TakeCall(p, out)
    /\ op' = IF out.call.pc = "done" THEN out.call ELSE NoOp

(***************************************************************************)
(* The retriever's inputs                                                  *)
(***************************************************************************)
\* Document lists as parse_repository makes them: none, the first MaxDocs
\* chunks of file 1, with chunk ids 0..MaxDocs-1, and the single chunk of file 2.

ChunkContent(file, i) ==
    IF file = 1 THEN (IF i % 2 = 1 THEN <<"a">> ELSE <<"a", "b">>)
    ELSE (IF i % 2 = 1 THEN <<"b">> ELSE <<"b", "a", "a">>)

DocsOf(file, n) ==
    [i \in 1..n |-> CodeDocument(ChunkContent(file, i), <<"file", file>>, "text", i - 1)]

DocLists == {<<>>, DocsOf(1, MaxDocs), DocsOf(2, 1)}

Queries == {<<"a">>}
TopKs == {0, 1, 2}

\* The distances the index may answer with, in units of 1/DistDen: from below
\* 0 to above 2.
Dists == (-1)..(2 * DistDen + 1)
DistSteps == {-1, 0, 1}

\* The collection name given to collection_exists: one that build_index
\* makes of a repository name.
CollectionNamePool == {CollectionNameOf[<<"a", "-", "a">>]}

\* The sessions inside a call of the given name at the given position.
At(nm, where) == {p \in Instances : call[p].name = nm /\ call[p].pc = where}

BuildStartCall ==
    /\ \E p \in Instances :
          /\ Idle(p)
          /\ \E r \in RepoNamePool, docs \in DocLists, f \in InitFailures :
                Take(p, BuildStart(p, r, docs, f))
    /\ UNCHANGED <<parserVars, nameVars, appVars>>

BuildCountCall ==
    /\ \E p \in At("build_index", "count") : \E fail \in BOOLEAN : Take(p, BuildCount(p, fail))
    /\ UNCHANGED <<parserVars, nameVars, appVars>>

BuildEmbedCall ==
    /\ \E p \in At("build_index", "embed") :
          \E failAt \in {0, 1, Len(call[p].docs)} : Take(p, BuildEmbed(p, failAt))
    /\ UNCHANGED <<parserVars, nameVars, appVars>>

BuildAddBatchCall ==
    /\ \E p \in At("build_index", "add") :
          \E fail \in BOOLEAN, dup \in DuplicatePoliciesFor(store, collection[p]) :
              Take(p, BuildAddBatch(p, fail, dup))
    /\ UNCHANGED <<parserVars, nameVars, appVars>>

\* A retrieve on the retriever of the session, top_k in K.
RetrieveStartWith(K) ==
    \E p \in Instances :
        /\ Idle(p)
        /\ \E q \in Queries, top_k \in K, f \in RetrieveFailures \ {"query"} :
              Take(p, RetrieveStart(p, collection[p], q, top_k, f))

\* In the specification of the whole retriever top_k is left out.
RetrieveStartCall ==
    /\ RetrieveStartWith({0})
    /\ UNCHANGED <<parserVars, nameVars, appVars>>

\* The query of a retrieve, the index answering from `first` on at the
\* distances base, base + stp, ..., for base in D and stp in S.
RetrieveQueryWith(D, S) ==
    \E p \in At("retrieve", "query") :
        \/ Take(p, RetrieveQuery(p, "query", 1, 0, 0))
        \/ \E first \in {1} \cup ({Len(store[call[p].the_collection])} \ {0}),
              base \in D, stp \in S :
                Take(p, RetrieveQuery(p, "none", first, base, stp))

\* In the specification of the whole retriever the index answers at the
\* distances 0, 1/DistDen, 2/DistDen, ...
RetrieveCall ==
    /\ RetrieveQueryWith({0}, {1})
    /\ UNCHANGED <<parserVars, nameVars, appVars>>

ConstructCall ==
    /\ \E p \in Instances :
          /\ Idle(p)
          /\ \E ok \in BOOLEAN : Take(p, Construct(p, ok))
    /\ UNCHANGED <<parserVars, nameVars, appVars>>

CollectionExistsCall ==
    /\ \E p \in Instances :
          /\ Idle(p)
          /\ \E cn \in CollectionNamePool, f \in InitFailures, fail \in BOOLEAN :
                Take(p, CollectionExistsStart(p, cn, f, fail))
    /\ UNCHANGED <<parserVars, nameVars, appVars>>

CollectionExistsCountCall ==
    /\ \E p \in At("collection_exists", "count") :
          \E fail \in BOOLEAN : Take(p, CollectionExistsCount(p, call[p], fail))
    /\ UNCHANGED <<parserVars, nameVars, appVars>>

Init ==
    /\ ParserIdle
    /\ NameIdle
    /\ RetrieverIdle
    /\ RaceIdle
    /\ AppIdle

Next ==
    \/ BuildStartCall
    \/ BuildCountCall
    \/ BuildEmbedCall
    \/ BuildAddBatchCall
    \/ RetrieveStartCall
    \/ RetrieveCall
    \/ ConstructCall
    \/ CollectionExistsCall
    \/ CollectionExistsCountCall

Spec == Init /\ [][Next]_vars

(***************************************************************************)
(* Sessions that index into a store without records and query it, the      *)
(* index answering at any of the distances of Dists.                       *)
(***************************************************************************)
\* No collection of the store holds a record.
NoRecords == \A cn \in DOMAIN store : store[cn] = <<>>

FirstBuild ==
    /\ NoRecords
    /\ \E p \in Instances :
          /\ Idle(p)
          /\ \E r \in RepoNamePool, docs \in DocLists :
                Take(p, BuildStart(p, r, docs, "none"))
    /\ UNCHANGED <<parserVars, nameVars, appVars>>

RetrieveStartAnyK ==
    /\ RetrieveStartWith(TopKs)
    /\ UNCHANGED <<parserVars, nameVars, appVars>>

RetrieveAnyDistance ==
    /\ RetrieveQueryWith(Dists, DistSteps)
    /\ UNCHANGED <<parserVars, nameVars, appVars>>

NextRetrieve ==
    \/ FirstBuild
    \/ BuildCountCall
    \/ BuildEmbedCall
    \/ BuildAddBatchCall
    \/ RetrieveStartAnyK
    \/ RetrieveAnyDistance

SpecRetrieve == Init /\ [][NextRetrieve]_vars

(***************************************************************************)
(* The same sessions against the index as build_index configures it: the   *)
(* collection is created without a metric (line 52-56), so the index      *)
(* measures squared L2 and every distance it returns is 0 or more.  The    *)
(* order of the answer is left open: ascending, level or descending.       *)
(***************************************************************************)
RetrieveMetric ==
    /\ RetrieveQueryWith(0..(2 * DistDen + 1), DistSteps)
    /\ \A j \in 1..Len(op'.distances) : op'.distances[j] >= 0
    /\ UNCHANGED <<parserVars, nameVars, appVars>>

NextMetric ==
    \/ FirstBuild
    \/ BuildCountCall
    \/ BuildEmbedCall
    \/ BuildAddBatchCall
    \/ RetrieveStartAnyK
    \/ RetrieveMetric

SpecMetric == Init /\ [][NextMetric]_vars

(***************************************************************************)
(* Builds of long document lists: one repository, a list that fills one    *)
(* batch of batch_size documents exactly and a list that overflows         *)
(* MaxBatches - 1 batches by one document into batch MaxBatches.  The      *)
(* storage client and the count work; the embedding service and the        *)
(* inserts may fail.                                                       *)
(***************************************************************************)
BatchSizes == {batch_size, batch_size * (MaxBatches - 1) + 1}

\* The lists that fill their batches exactly are chunks of one file, those
\* that overflow by one document are chunks of another.
BatchDocLists ==
    {DocsOf(IF n % batch_size = 0 THEN 2 ELSE 1, n) : n \in BatchSizes}

BatchRepo == <<"e">>

BuildBatchesCall ==
    /\ \E p \in Instances :
          /\ Idle(p)
          /\ \E docs \in BatchDocLists :
                Take(p, BuildStart(p, BatchRepo, docs, "none"))
    /\ UNCHANGED <<parserVars, nameVars, appVars>>

BuildCountBatchCall ==
    /\ \E p \in At("build_index", "count") : Take(p, BuildCount(p, FALSE))
    /\ UNCHANGED <<parserVars, nameVars, appVars>>

NextBatch ==
    \/ BuildBatchesCall
    \/ BuildCountBatchCall
    \/ BuildEmbedCall
    \/ BuildAddBatchCall

SpecBatch == Init /\ [][NextBatch]_vars

(***************************************************************************)
(* Sessions building side by side, for two repositories with collections   *)
(* of their own.                                                           *)
(***************************************************************************)
RaceRepos == {<<"a", "-", "a">>, <<"e">>}
RaceDocLists == {<<>>, DocsOf(1, MaxDocs), DocsOf(2, 1)}

BuildRaceCall ==
    /\ \E p \in Instances :
          /\ Idle(p)
          /\ \E r \in RaceRepos, docs \in RaceDocLists, f \in InitFailures :
                Take(p, BuildStart(p, r, docs, f))
    /\ UNCHANGED <<parserVars, nameVars, appVars>>

NextRace ==
    \/ BuildRaceCall
    \/ BuildCountCall
    \/ BuildEmbedCall
    \/ BuildAddBatchCall

SpecRace == Init /\ [][NextRace]_vars

(***************************************************************************)
(* The application (app.py).  Every session runs the script in a thread of *)
(* its own, one run at a time.  The 'Clone & Index Repository' handler     *)
(* works on a retriever of its own, the retriever of session p in the      *)
(* state, and puts it into st.session_state only where the code does; its  *)
(* steps are those of the calls it makes on the retriever.                 *)
(***************************************************************************)
\* retriever.delete_collection(repo_name), app.py lines 155 and 211: class
\* RAGRetriever (retriever.py lines 17-158) defines no such method, so the
\* attribute lookup raises before anything is deleted.
DeleteCollection(st, r) == [error |-> "AttributeError", store |-> st]

\* The record of the handler's run that ends with the call record c.
IndexRun(p, c) ==
    [c EXCEPT !.name = "index_button", !.by = p, !.pc = "done",
              !.repo = handler[p].repo,
              !.force_rebuild = handler[p].force_rebuild,
              !.use_cache = handler[p].use_cache,
              !.init_calls = c.init_calls + handler[p].init_calls,
              !.delete_error = handler[p].delete_error,
              !.held = handler[p].held]

\* The retriever is kept: lines 145-148 and 177-180.
KeptIn(p, self) == [session EXCEPT ![p] = [indexed |-> TRUE, retriever |-> self]]

\* The handler's run is over.
HandlerOver(p) == [handler EXCEPT ![p] = NoHandler]

\* The failures of the handler before its first call of the store: none,
\* the clone raises, the constructor of the retriever raises.
ClickFailures == {"none", "clone", "embedding"}

\* Lines 122-135: the click, the clone and RAGRetriever().  When the clone or
\* the constructor raises, line 186 shows the error and the run is over.
IndexClick(p, r, force_rebuild, use_cache, f) ==
    LET made == IF f = "clone"
                THEN [Keep(p) EXCEPT !.call = [NoOp EXCEPT !.by = p, !.pc = "done",
                                                           !.error = "clone"]]
                ELSE Construct(p, f = "none")
        run == [NoHandler EXCEPT
                   !.pc = IF use_cache /\ ~force_rebuild THEN "check" ELSE "build",
                   !.repo = r,
                   !.force_rebuild = force_rebuild, !.use_cache = use_cache,
                   !.held = /\ Exists(store, CollectionNameOf[r])
                            /\ store[CollectionNameOf[r]] # <<>>]
    IN  /\ handler[p].pc = "idle"
        /\ Idle(p)
        /\ TakeState(p, made)
        /\ UNCHANGED <<call, session>>
        /\ IF made.call.error # "none"
           THEN /\ op' = [made.call EXCEPT
                             !.name = "index_button", !.repo = r,
                             !.force_rebuild = force_rebuild,
                             !.use_cache = use_cache, !.held = run.held]
                /\ UNCHANGED handler
           ELSE /\ op' = NoOp
                /\ handler' = [handler EXCEPT ![p] = run]

\* Line 139: retriever._init_client(retriever._get_collection_name(repo_name)).
HandlerCheck(p, f) ==
    LET init == InitClient(Self(p), store, CollectionNameOf[handler[p].repo], f)
    IN  /\ handler[p].pc = "check"
        /\ TakeState(p, [Keep(p) EXCEPT !.self = init.self, !.store = init.store])
        /\ UNCHANGED <<call, session>>
        /\ IF init.error # "none"
           THEN /\ op' = IndexRun(p, [NoOp EXCEPT !.init_calls = 1,
                                                  !.error = init.error])
                /\ handler' = HandlerOver(p)
           ELSE /\ op' = NoOp
                /\ handler' = [handler EXCEPT ![p].pc = "count",
                                              ![p].init_calls = 1]

\* Lines 140-149: the count and 'Using cached index!', or line 186 when the
\* count raises (`fail`).
HandlerCount(p, fail) ==
    LET existing_count == Len(store[collection[p]])
    IN  /\ handler[p].pc = "count"
        /\ TakeState(p, Keep(p))
        /\ UNCHANGED call
        /\ IF fail
           THEN /\ op' = IndexRun(p, [NoOp EXCEPT !.error = "storage"])
                /\ handler' = HandlerOver(p)
                /\ UNCHANGED session
           ELSE IF existing_count > 0
           THEN /\ op' = IndexRun(p, [NoOp EXCEPT !.existing_count = existing_count,
                                                  !.loaded_from_cache = TRUE])
                /\ session' = KeptIn(p, Self(p))
                /\ handler' = HandlerOver(p)
           ELSE /\ op' = NoOp
                /\ handler' = [handler EXCEPT ![p].pc = "build"]
                /\ UNCHANGED session

\* The end of the build_index of line 172 ends the run: lines 174-184, or
\* lines 186-188 when it raised.
HandlerEnd(p, out) ==
    /\ op' = IndexRun(p, out.call)
    /\ handler' = HandlerOver(p)
    /\ session' = IF out.call.error = "none" THEN KeptIn(p, out.self) ELSE session

\* A step of the build_index the handler called.
HandlerTake(p, out) ==
    /\ TakeState(p, out)
    /\ TakeCall(p, out)
    /\ IF out.call.pc = "done"
       THEN HandlerEnd(p, out)
       ELSE /\ op' = NoOp
            /\ UNCHANGED session
            /\ handler' = [handler EXCEPT ![p].pc = "building"]

\* Lines 152-172: the call of delete_collection under 'Force rebuild', whose
\* exception is dropped; the parse, which yields docs; 'No processable files
\* found' and st.stop() for an empty parse; and build_index up to its
\* _init_client.
HandlerBuild(p, docs, f) ==
    LET h == handler[p]
        deleted == IF h.force_rebuild THEN DeleteCollection(store, h.repo)
                   ELSE [error |-> "none", store |-> store]
        after == [Keep(p) EXCEPT !.store = deleted.store]
    IN  /\ h.pc = "build"
        /\ IF docs = <<>>
           THEN /\ TakeState(p, after)
                /\ UNCHANGED <<call, session>>
                /\ op' = [IndexRun(p, [NoOp EXCEPT
                                          !.error = "No processable files found"])
                             EXCEPT !.delete_error = deleted.error]
                /\ handler' = HandlerOver(p)
           ELSE LET out == BuildStart(p, h.repo, docs, f)
                IN  /\ TakeState(p, out)
                    /\ TakeCall(p, out)
                    /\ IF out.call.pc = "done"
                       THEN /\ op' = [IndexRun(p, out.call)
                                         EXCEPT !.delete_error = deleted.error]
                            /\ handler' = HandlerOver(p)
                            /\ UNCHANGED session
                       ELSE /\ op' = NoOp
                            /\ UNCHANGED session
                            /\ handler' = [handler EXCEPT
                                              ![p].pc = "building",
                                              ![p].delete_error = deleted.error]

\* The 'Clear Index' handler, app.py lines 208-220, shown once a repository is
\* indexed: the call of delete_collection raises, the handler reports the
\* error and the session keeps its retriever.
ClearIndexButton(p) ==
    LET deleted == DeleteCollection(store, <<>>)
        made == [NoOp EXCEPT !.name = "clear_index", !.by = p, !.pc = "done",
                             !.delete_error = deleted.error,
                             !.error = deleted.error]
    IN  /\ handler[p].pc = "idle"
        /\ Idle(p)
        /\ session[p].indexed
        /\ TakeState(p, [Keep(p) EXCEPT !.store = deleted.store])
        /\ op' = made
        /\ session' = IF deleted.error = "none"
                      THEN [session EXCEPT ![p] = NoSession]
                      ELSE session
        /\ UNCHANGED <<call, handler>>

\* The repository the sessions index.
AppRepos == {<<"a", "-", "a">>}

IndexClickCall ==
    /\ \E p \in Instances, r \in AppRepos, force_rebuild \in BOOLEAN,
          use_cache \in BOOLEAN, f \in ClickFailures :
          IndexClick(p, r, force_rebuild, use_cache, f)
    /\ UNCHANGED <<parserVars, nameVars>>

HandlerCheckCall ==
    /\ \E p \in Instances, f \in InitFailures : HandlerCheck(p, f)
    /\ UNCHANGED <<parserVars, nameVars>>

HandlerCountCall ==
    /\ \E p \in Instances, fail \in BOOLEAN : HandlerCount(p, fail)
    /\ UNCHANGED <<parserVars, nameVars>>

HandlerBuildCall ==
    /\ \E p \in Instances, docs \in DocLists, f \in InitFailures :
          HandlerBuild(p, docs, f)
    /\ UNCHANGED <<parserVars, nameVars>>

HandlerCountBuildCall ==
    /\ \E p \in At("build_index", "count") : \E fail \in BOOLEAN : HandlerTake(p, BuildCount(p, fail))
    /\ UNCHANGED <<parserVars, nameVars>>

HandlerEmbedCall ==
    /\ \E p \in At("build_index", "embed") :
          \E failAt \in {0, 1, Len(call[p].docs)} :
              HandlerTake(p, BuildEmbed(p, failAt))
    /\ UNCHANGED <<parserVars, nameVars>>

HandlerAddBatchCall ==
    /\ \E p \in At("build_index", "add") :
          \E fail \in BOOLEAN, dup \in DuplicatePoliciesFor(store, collection[p]) :
              HandlerTake(p, BuildAddBatch(p, fail, dup))
    /\ UNCHANGED <<parserVars, nameVars>>

ClearIndexCall ==
    /\ \E p \in Instances : ClearIndexButton(p)
    /\ UNCHANGED <<parserVars, nameVars>>

\* The slider 'Results to retrieve', app.py line 226: 1 to 10, 5 when the
\* page loads.
Slider == 1..10

\* The question box, app.py lines 289-304, shown once a repository is
\* indexed: retrieve(query, top_k) on the retriever the session keeps, with
\* the slider's value, up to its count.
QuestionCall ==
    /\ \E p \in Instances :
          /\ handler[p].pc = "idle"
          /\ Idle(p)
          /\ session[p].indexed
          /\ \E q \in Queries, top_k \in Slider, f \in RetrieveFailures \ {"query"} :
                Take(p, RetrieveStart(p, session[p].retriever.collection, q, top_k, f))
    /\ UNCHANGED <<parserVars, nameVars, appVars>>

\* The retrieve of line 304 has returned `ended`, a list that is not empty:
\* line 310 is to come.
ToContext(ended) ==
    [NoOp EXCEPT !.name = "retrieve", !.by = ended.by, !.pc = "context",
                 !.query = ended.query, !.top_k = ended.top_k,
                 !.the_collection = ended.the_collection]

\* The query of a retrieve the question handler called.  When the retrieve
\* of line 304 returns an empty list or raises, or the one of line 310 ends,
\* the handler is over (lines 306-307, 334-337, 312-332).
QuestionQuery(p, f, first) ==
    LET out == RetrieveQuery(p, f, first, 0, 1)
    IN  IF ~call[p].context /\ out.call.error = "none" /\ out.call.result # <<>>
        THEN /\ TakeState(p, out)
             /\ call' = [call EXCEPT ![p] = ToContext(out.call)]
             /\ op' = out.call
        ELSE Take(p, out)

QuestionQueryCall ==
    /\ \E p \in At("retrieve", "query") :
          \/ QuestionQuery(p, "query", 1)
          \/ \E first \in {1} \cup ({Len(store[call[p].the_collection])} \ {0}) :
                QuestionQuery(p, "none", first)
    /\ UNCHANGED <<parserVars, nameVars, appVars>>

\* Line 310: retriever.get_context_for_query(query, top_k), which calls
\* retrieve again (retriever.py line 154): the check, the embedding of the
\* query and the count.
QuestionContextCall ==
    /\ \E p \in At("retrieve", "context") :
          \E f \in RetrieveFailures \ {"query"} :
              LET c == call[p]
                  out == RetrieveStart(p, c.the_collection, c.query, c.top_k, f)
              IN  Take(p, [out EXCEPT !.call.context = TRUE])
    /\ UNCHANGED <<parserVars, nameVars, appVars>>

NextApp ==
    \/ IndexClickCall
    \/ HandlerCheckCall
    \/ HandlerCountCall
    \/ HandlerBuildCall
    \/ HandlerCountBuildCall
    \/ HandlerEmbedCall
    \/ HandlerAddBatchCall
    \/ ClearIndexCall

SpecApp == Init /\ [][NextApp]_vars

(***************************************************************************)
(* Sessions that index with the checkboxes as they are when the page loads *)
(* and ask questions.                                                      *)
(***************************************************************************)
IndexClickDefaultCall ==
    /\ \E p \in Instances, r \in AppRepos, f \in ClickFailures :
          IndexClick(p, r, FALSE, TRUE, f)
    /\ UNCHANGED <<parserVars, nameVars>>

\* The parse yields the chunks of file 1.
HandlerBuildOneCall ==
    /\ \E p \in Instances, f \in InitFailures :
          HandlerBuild(p, DocsOf(1, MaxDocs), f)
    /\ UNCHANGED <<parserVars, nameVars>>

NextAsk ==
    \/ IndexClickDefaultCall
    \/ HandlerCheckCall
    \/ HandlerCountCall
    \/ HandlerBuildOneCall
    \/ HandlerCountBuildCall
    \/ HandlerEmbedCall
    \/ HandlerAddBatchCall
    \/ QuestionCall
    \/ QuestionQueryCall
    \/ QuestionContextCall

SpecAsk == Init /\ [][NextAsk]_vars

(***************************************************************************)
(* Properties of the chunker (checked under SpecChunk)                     *)
(***************************************************************************)
\* chunk_text has returned: `chunks` is its return value.
Returned == pc = "done"

\* The token indices (0-based) a recorded slice covers.
Covered(w) == {i \in 0..(Len(tokens) - 1) : w.lo <= i /\ i < w.hi}

\* The text of the token window [lo, hi) of the current token sequence.
WindowText(lo, hi) == decode(SubSeq(tokens, lo + 1, hi))

\* C2 (chunk coverage): when chunk_text returns with 0 <= overlap < chunk_size,
\* every token index 0..n-1 lies in some emitted window, each chunk holds the
\* text of its window, and a text returned as one chunk is returned whole.
C2_ChunkCoverage ==
    (Returned /\ chunk_overlap < chunk_size) =>
        IF windows = <<>>
        THEN /\ Len(chunks) = 1
             /\ chunks[1].content = text
             /\ decode(tokens) = text
        ELSE /\ Len(chunks) = Len(windows)
             /\ UNION {Covered(windows[k]) : k \in 1..Len(windows)}
                    = 0..(Len(tokens) - 1)
             /\ \A k \in 1..Len(windows) :
                    /\ windows[k].toks = SubSeq(tokens, windows[k].lo + 1, windows[k].hi)
                    /\ chunks[k].content = decode(windows[k].toks)

\* A text of more tokens than chunk_size was split and its final partial tail
\* (shorter than a full window) was emitted.
C2_Witness ==
    /\ Returned
    /\ Len(windows) >= 2
    /\ windows[Len(windows)].hi = Len(tokens)
    /\ windows[Len(windows)].hi - windows[Len(windows)].lo < chunk_size

\* C3 (single-chunk shortcut): a text of at most chunk_size tokens comes back
\* as exactly one chunk, with chunk_id 0 and the original text as content.
C3_SingleChunk ==
    (Returned /\ Len(encode(text)) <= chunk_size) =>
        chunks = <<CodeDocument(text, file_path, language, 0)>>

\* A text of exactly chunk_size tokens, where tokens and characters differ in number.
C3_Witness ==
    /\ Returned
    /\ Len(encode(text)) = chunk_size
    /\ Len(text) > chunk_size
    /\ Len(chunks) = 1

\* C4 as stated: chunk_text on a text of zero tokens returns no chunk.
C4_EmptyYieldsNoChunk ==
    (Returned /\ Len(encode(text)) = 0) => chunks = <<>>

\* C4 as amended: chunk_text on a text of zero tokens returns exactly one
\* chunk (chunk_id 0, empty content); it is parse_repository that skips a file
\* of empty content, so that such a file contributes no chunk to its result.
C4_EmptySkippedByCaller ==
    /\ (Returned /\ Len(encode(text)) = 0) =>
            chunks = <<CodeDocument(<<>>, file_path, language, 0)>>
    /\ (caller \in {"parse", "parsed"} /\ pc # "idle") => text # <<>>
    /\ caller = "parsed" =>
            \A i \in 1..Len(repo) :
                repo[i].content = <<>> =>
                    \A k \in 1..Len(documents) : documents[k].file_path # repo[i].path

\* chunk_text, called directly, has returned for a text of zero tokens.
C4_Witness ==
    /\ Returned
    /\ caller = "api"
    /\ tokens = <<>>
    /\ Len(chunks) = 1

\* parse_repository has returned for a repository that holds an empty file.
C4_WitnessParse ==
    /\ caller = "parsed"
    /\ \E i \in 1..Len(repo) : repo[i].content = <<>>

\* C5 (window geometry): for n > chunk_size tokens and 0 <= overlap < chunk_size
\* chunk i (0-based) is the window [i*step, min(i*step + chunk_size, n)) with
\* step = chunk_size - overlap; so a chunk has at most chunk_size tokens,
\* consecutive chunks share exactly overlap tokens, and the last chunk is the
\* first window whose end reaches n.
C5_WindowGeometry ==
    (Returned /\ Len(tokens) > chunk_size /\ chunk_overlap < chunk_size) =>
        LET n == Len(tokens)
            step == chunk_size - chunk_overlap
            m == Len(chunks)
        IN  /\ m = Len(windows)
            /\ m >= 1
            /\ \A k \in 1..m :
                   LET lo == (k - 1) * step
                       hi == Min((k - 1) * step + chunk_size, n)
                   IN  /\ windows[k].lo = lo
                       /\ windows[k].hi = hi
                       /\ chunks[k].content = WindowText(lo, hi)
                       /\ hi - lo <= chunk_size
                       /\ Len(windows[k].toks) = hi - lo
            /\ \A k \in 1..(m - 1) :
                   Cardinality(Covered(windows[k]) \cap Covered(windows[k + 1]))
                       = chunk_overlap
            /\ windows[m].hi = n
            /\ \A k \in 1..(m - 1) : (k - 1) * step + chunk_size < n

\* Three or more windows with a positive overlap.
C5_Witness ==
    /\ Returned
    /\ Len(tokens) > chunk_size
    /\ chunk_overlap > 0
    /\ Len(chunks) >= 3

\* C6 (chunk id monotonicity): a file split into m > 1 chunks has the chunk
\* ids 0, 1, ..., m-1 in output order.
C6_ChunkIds ==
    (Returned /\ Len(chunks) > 1) =>
        \A k \in 1..Len(chunks) : chunks[k].chunk_id = k - 1

C6_Witness ==
    /\ Returned
    /\ Len(chunks) >= 3

(***************************************************************************)
(* Properties of the collection name (checked under SpecName)              *)
(***************************************************************************)
\* The characters of the class [a-z0-9_.-].
NameClass == {"a", "r", "e", "p", "o", "i", "7", "_", ".", "-"}

\* C7 (collection name): the name returned for any repository name matches
\* ^[a-z0-9_.-]{1,63}$: 1 to 63 characters, each of them a lower-case ASCII
\* letter, an ASCII digit, an underscore, a hyphen or a dot.
C7_NameMatches ==
    namePc = "done" =>
        /\ Len(name) >= 1
        /\ Len(name) <= MaxNameLen
        /\ \A i \in 1..Len(name) : name[i] \in NameClass

\* The part of C7 that holds: for a repository name of ASCII characters the
\* returned name matches the pattern (and is cut to 63 characters).
C7_AsciiNameMatches ==
    (namePc = "done" /\ \A i \in 1..Len(repo_name) : repo_name[i] \notin {"U+00E9", "U+0130"}) =>
        /\ Len(name) >= 1
        /\ Len(name) <= MaxNameLen
        /\ \A i \in 1..Len(name) : name[i] \in NameClass

(***************************************************************************)
(* Properties of the retriever                                             *)
(***************************************************************************)
\* The collection of the repository name of the call o.
Cn(o) == CollectionNameOf[o.repo]

\* A build_index call with documents that read count 0 and met no failure.
BuiltFromEmpty(o) ==
    /\ o.name = "build_index"
    /\ o.docs # <<>>
    /\ o.error = "none"
    /\ o.existing_count = 0

\* The records of `recs` are those of the documents `docs`, one per document,
\* in order, under the ids doc_0 .. doc_{n-1}.
HoldsExactly(recs, docs) ==
    /\ Len(recs) = Len(docs)
    /\ Cardinality({recs[i].id : i \in 1..Len(recs)}) = Len(docs)
    /\ \A i \in 1..Len(recs) :
          /\ recs[i].id = <<"doc", i - 1>>
          /\ recs[i].document = docs[i].content

\* The records build_index writes for the documents docs, in order.
RecordsOf(docs) == [i \in 1..Len(docs) |-> RecordOf(docs, i - 1)]

\* The step is the count of line 79 in a build_index of session p.
CountStep(p) ==
    /\ call[p].name = "build_index"
    /\ call[p].pc = "count"
    /\ call'[p] # call[p]

\* ... and the count returned.
Counted(p) ==
    /\ CountStep(p)
    /\ \/ call'[p].existing_count >= 0
       \/ op'.by = p /\ op'.existing_count >= 0

\* C1 (idempotent build): a build_index(docs, r) with non-empty docs that finds
\* r's collection empty and meets no failure, no other build being in flight
\* on the collection, leaves exactly len(docs) records in it, none duplicated;
\* the same call made on the collection as that build left it returns without
\* failure and leaves the same records and the same count.
C1_Step ==
    /\ (BuiltFromEmpty(op') /\ ~op'.overlapped) =>
          HoldsExactly(store'[Cn(op')], op'.docs)
    /\ \A p \in Instances :
          ( /\ Counted(p)
            /\ store[collection[p]] = RecordsOf(call[p].docs) ) =>
              /\ op'.name = "build_index"
              /\ op'.by = p
              /\ op'.docs = call[p].docs
              /\ op'.error = "none"
              /\ op'.existing_count = Len(call[p].docs)
              /\ store' = store
              /\ HoldsExactly(store'[collection[p]], call[p].docs)

C1_IdempotentBuild == [][C1_Step]_vars

\* The second of two builds of the same two or more documents has returned.
C1_Witness ==
    /\ op.name = "build_index"
    /\ op.error = "none"
    /\ Len(op.docs) >= 2
    /\ op.existing_count = Len(op.docs)
    /\ store[Cn(op)] = RecordsOf(op.docs)
    /\ [cn |-> Cn(op), repo |-> op.repo] \in written

\* C8 (empty input): build_index with an empty document list raises the
\* empty-input error before anything else: no _init_client, no count, no
\* embedding, no insert; store, client, attached collection and remembered
\* documents stay as they were.
C8_Step ==
    (op'.name = "build_index" /\ op'.docs = <<>>) =>
        /\ op'.error = "ValueError: No documents provided for indexing"
        /\ op'.init_calls = 0
        /\ op'.existing_count = -1
        /\ op'.embed_calls = 0
        /\ op'.adds = <<>>
        /\ UNCHANGED <<store, chroma_client, collection, self_documents>>

C8_EmptyInput == [][C8_Step]_vars

\* build_index([]) has failed on a retriever that is attached to a populated
\* collection and remembers documents.
C8_Witness ==
    /\ op.name = "build_index"
    /\ op.docs = <<>>
    /\ op.error = "ValueError: No documents provided for indexing"
    /\ collection[op.by] # None
    /\ store[collection[op.by]] # <<>>
    /\ self_documents[op.by] # <<>>

\* C9 (retrieve before attach): retrieve on a retriever whose collection is
\* None raises the not-initialized error, with no embedding call and no query.
C9_NotInitialized ==
    (op.name = "retrieve" /\ op.the_collection = None) =>
        /\ op.error = "ValueError: Collection not initialized"
        /\ op.embed_calls = 0
        /\ op.n_results = -1
        /\ op.result = <<>>

\* retrieve has failed on a retriever without a collection although the store
\* holds a populated collection (built through another retriever).
C9_Witness ==
    /\ op.name = "retrieve"
    /\ collection[op.by] = None
    /\ op.error = "ValueError: Collection not initialized"
    /\ \E cn \in DOMAIN store : store[cn] # <<>>

\* C9, the case the claim names: a retrieve right after a failed build_index([])
\* on a retriever without a collection fails the same way.
C9_AfterEmptyBuildStep ==
    ( /\ op.name = "build_index"
      /\ op.docs = <<>>
      /\ collection[op.by] = None
      /\ op'.name = "retrieve"
      /\ op'.by = op.by ) =>
        /\ op'.error = "ValueError: Collection not initialized"
        /\ op'.embed_calls = 0
        /\ op'.n_results = -1

C9_AfterEmptyBuild == [][C9_AfterEmptyBuildStep]_vars

\* C10 (similarity bounds): every similarity retrieve returns lies in [0, 1]
\* (0..SimDen in units of 1/SimDen) and is 1 - d^2/2 cut to that range, for the
\* distance d the index returned; d = 0 gives 1 and d = 2 gives 0.
C10_SimilarityBounds ==
    (op.name = "retrieve" /\ op.error = "none") =>
        /\ Len(op.result) = Len(op.distances)
        /\ \A j \in 1..Len(op.result) :
              LET sim == op.result[j].similarity
                  d == op.distances[j]
                  raw == SimDen - d * d
              IN  /\ 0 <= sim
                  /\ sim <= SimDen
                  /\ sim = (IF raw < 0 THEN 0 ELSE IF raw > SimDen THEN SimDen ELSE raw)
                  /\ d = 0 => sim = SimDen
                  /\ d = 2 * DistDen => sim = 0

\* retrieve has returned two hits, one at distance 2 and one beyond it.
C10_Witness ==
    /\ op.name = "retrieve"
    /\ op.error = "none"
    /\ Len(op.result) = 2
    /\ \E j \in 1..2 : op.distances[j] = 2 * DistDen /\ op.result[j].similarity = 0
    /\ \E j \in 1..2 : op.distances[j] > 2 * DistDen /\ op.result[j].similarity = 0

\* The distances d[1..n] never decrease.
Ascending(d) == \A j \in 1..(Len(d) - 1) : d[j] <= d[j + 1]

\* The stored record with the id `id` of the collection the retrieve ran on.
RecordWithId(id) ==
    LET recs == store[op.the_collection]
    IN  recs[CHOOSE i \in 1..Len(recs) : recs[i].id = id]

\* C11 (retrieval ordering): whenever the index returns its neighbours in
\* ascending order of distance, the similarities of the sequence retrieve
\* returns never increase; the sequence has at most min(k, count) entries, one
\* per neighbour returned and in the index's order: entry j is the chunk of
\* the j-th neighbour with the similarity of the j-th distance.
C11_RetrievalOrdering ==
    (op.name = "retrieve" /\ op.error = "none" /\ Ascending(op.distances)) =>
        LET k == IF op.top_k = 0 THEN TOP_K_RESULTS ELSE op.top_k
            count == Len(store[op.the_collection])
            n == Len(op.result)
        IN  /\ \A j \in 1..(n - 1) :
                   op.result[j].similarity >= op.result[j + 1].similarity
            /\ n <= Min(k, count)
            /\ n = Len(op.hits)
            /\ n = Len(op.distances)
            /\ \A j \in 1..n :
                   LET rec == RecordWithId(op.hits[j])
                   IN  /\ op.result[j].doc =
                             CodeDocument(rec.document, rec.metadata.file_path,
                                          rec.metadata.language, rec.metadata.chunk_id)
                       /\ op.result[j].similarity = Similarity(op.distances[j])

\* retrieve has returned two hits at strictly ascending distances, the index
\* having answered with the last stored record first; the similarities fall.
C11_Witness ==
    /\ op.name = "retrieve"
    /\ op.error = "none"
    /\ Len(op.result) = 2
    /\ op.distances[1] < op.distances[2]
    /\ op.hits = <<DocId(1), DocId(0)>>
    /\ op.result[1].similarity > op.result[2].similarity

\* C12 (force rebuild), as stated: a 'Clone & Index Repository' run with 'Force
\* rebuild' for a repository whose collection held records at the click, whose
\* parse yields documents and which ends without error, leaves in the
\* collection exactly the records doc_0 .. doc_{n-1} of the newly parsed
\* documents.
C12_ForceRebuild ==
    ( /\ op.name = "index_button"
      /\ op.force_rebuild
      /\ op.docs # <<>>
      /\ op.error = "none"
      /\ op.held ) =>
        store[Cn(op)] = RecordsOf(op.docs)

\* What the handler does instead: the call of delete_collection raises
\* AttributeError, which is swallowed; build_index then finds records, takes
\* the cache-hit path and leaves the store as it was.
C12_KeepsOldStep ==
    ( /\ op'.name = "index_button"
      /\ op'.force_rebuild
      /\ op'.docs # <<>>
      /\ op'.error = "none"
      /\ op'.held ) =>
        /\ op'.delete_error = "AttributeError"
        /\ op'.existing_count = Len(store[Cn(op')])
        /\ op'.existing_count > 0
        /\ op'.embed_calls = 0
        /\ op'.adds = <<>>
        /\ store' = store

C12_KeepsOldIndex == [][C12_KeepsOldStep]_vars

\* A forced rebuild of a collection that held records has ended without error
\* and the collection still holds records that are not those of the newly
\* parsed documents.
C12_Witness ==
    /\ op.name = "index_button"
    /\ op.force_rebuild
    /\ op.held
    /\ op.error = "none"
    /\ op.docs # <<>>
    /\ store[Cn(op)] # RecordsOf(op.docs)

\* C13 (one collection per repository), as stated: a build_index for the
\* repository name r2 never resolves to a collection into which a build for a
\* different name r1 has written, so it never reads r1's records as its own
\* cache.
C13_CollectionPerRepository ==
    (op.name = "build_index" /\ op.existing_count >= 0) =>
        \A w \in written : w.repo # op.repo => w.cn # collection[op.by]

\* The part that holds: the records of a collection change only in a step of
\* a build that is in flight on that collection; a build for a name with
\* another collection name leaves them alone.
C13_DistinctCollectionsStep ==
    \A cn \in DOMAIN store :
        store'[cn] # store[cn] =>
            \E p \in Instances :
                /\ InFlight(p)
                /\ collection[p] = cn
                /\ CollectionNameOf[call[p].repo] = cn

C13_DistinctCollections == [][C13_DistinctCollectionsStep]_vars

\* A build for one name has been answered from the records another name
\* wrote: the retriever remembers documents none of which is in its collection.
C13_Witness ==
    /\ op.name = "build_index"
    /\ op.error = "none"
    /\ op.existing_count > 0
    /\ \E w \in written : w.cn = collection[op.by] /\ w.repo # op.repo
    /\ \A i \in 1..Len(self_documents[op.by]) :
          \A j \in 1..Len(store[collection[op.by]]) :
              store[collection[op.by]][j].document # self_documents[op.by][i].content

\* The slices build_index passes to collection.add for n documents:
\* <<0, 500>>, <<500, 1000>>, ..., the last one ending at n.
ExpectedAdds(n) ==
    [b \in 1..((n + batch_size - 1) \div batch_size) |->
        <<(b - 1) * batch_size, Min(b * batch_size, n)>>]

\* C14 (build ordering): after a build_index that found its collection empty
\* and met no failure, no other build being in flight on the collection, the
\* collection holds one record per document, record number i being doc_i with
\* the text, the metadata (file_path, language, chunk_id) and the embedding of
\* the content of documents[i]; the records were inserted in consecutive
\* slices of at most 500 in input order, which cover every document exactly
\* once, and the ids are pairwise distinct.
C14_BuildOrdering ==
    (BuiltFromEmpty(op) /\ ~op.overlapped) =>
        LET recs == store[Cn(op)]
            n == Len(op.docs)
        IN  /\ Len(recs) = n
            /\ \A i \in 0..(n - 1) :
                   /\ recs[i + 1].id = <<"doc", i>>
                   /\ recs[i + 1].document = op.docs[i + 1].content
                   /\ recs[i + 1].metadata =
                         [file_path |-> op.docs[i + 1].file_path,
                          language |-> op.docs[i + 1].language,
                          chunk_id |-> op.docs[i + 1].chunk_id]
                   /\ recs[i + 1].embedding = Embed(op.docs[i + 1].content)
            /\ Cardinality(Ids(recs)) = n
            /\ op.embed_calls = n
            /\ op.adds = ExpectedAdds(n)
            /\ op.adds[1][1] = 0
            /\ op.adds[Len(op.adds)][2] = n
            /\ \A b \in 1..Len(op.adds) :
                   /\ op.adds[b][2] - op.adds[b][1] >= 1
                   /\ op.adds[b][2] - op.adds[b][1] <= batch_size
                   /\ b > 1 => op.adds[b][1] = op.adds[b - 1][2]

\* A build of MaxBatches batches, the last one a single document.
C14_Witness ==
    /\ BuiltFromEmpty(op)
    /\ ~op.overlapped
    /\ Len(op.docs) = batch_size * (MaxBatches - 1) + 1
    /\ Len(op.adds) = MaxBatches
    /\ op.adds[MaxBatches] = <<batch_size * (MaxBatches - 1), Len(op.docs)>>
    /\ Len(store[Cn(op)]) = Len(op.docs)

\* C15 (concurrent first-time builds): an insert of an id the collection
\* already holds is attempted only by a build that read count = 0 and was in
\* flight on the collection at the same time as another build; so with at
\* most one build in flight per collection no such insert is ever attempted.
\* (That the interleaving exists is the witness below.)
C15_RaceNeedsTwoInFlight ==
    \A a \in attempted :
        /\ a.overlapped
        /\ a.observed = 0

\* Two sessions have read count = 0 on the same collection, both went on to
\* insert, and the later insert met an id already stored.
C15_Witness ==
    /\ op.name = "build_index"
    /\ op.existing_count = 0
    /\ op.overlapped
    /\ store[collection[op.by]] # <<>>
    /\ \E a \in attempted :
          /\ a.cn = collection[op.by]
          /\ a.id = DocId(0)
          /\ a.observed = 0

\* A build_index that found its collection empty and whose insert of batch
\* j >= 2 failed: j - 1 inserts were made, then the error came.
FailedAtLaterBatch(o) ==
    /\ o.name = "build_index"
    /\ o.existing_count = 0
    /\ o.error = "storage"
    /\ Len(o.adds) >= 1

\* The records recs are the first of the records of docs, some and not all.
PartOf(recs, docs) ==
    /\ recs # <<>>
    /\ Len(recs) < Len(docs)
    /\ recs = SubSeq(RecordsOf(docs), 1, Len(recs))

\* C16 (partial build failure): when the insert of batch j >= 2 fails, no
\* other build being in flight on the collection, the call ends with the
\* error and the collection holds the records of batches 1..j-1, fewer than
\* len(docs); a build_index with the same documents and repository name that
\* reads its count on the collection left so reads a count > 0, returns
\* without error, embeds nothing, inserts nothing and leaves the collection as
\* it is, short of len(docs) records.
C16_Step ==
    /\ (FailedAtLaterBatch(op') /\ ~op'.overlapped) =>
          /\ store'[Cn(op')] =
                SubSeq(RecordsOf(op'.docs), 1, Len(op'.adds) * batch_size)
          /\ PartOf(store'[Cn(op')], op'.docs)
    /\ \A p \in Instances :
          (Counted(p) /\ PartOf(store[collection[p]], call[p].docs)) =>
              /\ op'.name = "build_index"
              /\ op'.by = p
              /\ op'.existing_count = Len(store[collection[p]])
              /\ op'.existing_count > 0
              /\ op'.error = "none"
              /\ op'.embed_calls = 0
              /\ op'.adds = <<>>
              /\ store' = store
              /\ self_documents'[p] = call[p].docs
              /\ Len(store'[collection[p]]) < Len(call[p].docs)

C16_PartialBuildFailure == [][C16_Step]_vars

\* No build being under way, a build of more documents than fill
\* MaxBatches - 1 batches has returned from the cache-hit path on a collection
\* that holds the records of their first MaxBatches - 1 batches only.
C16_Witness ==
    /\ op.name = "build_index"
    /\ op.error = "none"
    /\ Len(op.docs) = batch_size * (MaxBatches - 1) + 1
    /\ op.existing_count = batch_size * (MaxBatches - 1)
    /\ op.adds = <<>>
    /\ store[Cn(op)] = SubSeq(RecordsOf(op.docs), 1, batch_size * (MaxBatches - 1))
    /\ \A q \in Instances : Idle(q)

\* C17 (cache-hit path): a build_index that reads a count > 0 returns without
\* error, makes no embedding call and no insert and leaves the store as it
\* was, every record of every collection; of the retriever it replaces the
\* remembered documents by the list passed in, whatever that list is (the
\* retriever is attached to the collection by the _init_client before).
C17_Step ==
    (op'.name = "build_index" /\ op'.existing_count > 0) =>
        /\ op'.error = "none"
        /\ op'.embed_calls = 0
        /\ op'.adds = <<>>
        /\ store' = store
        /\ op'.existing_count = Len(store[Cn(op')])
        /\ self_documents'[op'.by] = op'.docs
        /\ collection'[op'.by] = Cn(op')

C17_CacheHitPath == [][C17_Step]_vars

\* A build_index has returned from the cache-hit path with a list that is
\* longer than the collection and shares no text with it.
C17_Witness ==
    /\ op.name = "build_index"
    /\ op.existing_count > 0
    /\ op.error = "none"
    /\ self_documents[op.by] = op.docs
    /\ Len(op.docs) > Len(store[collection[op.by]])
    /\ \A i \in 1..Len(op.docs) :
          \A j \in 1..Len(store[collection[op.by]]) :
              store[collection[op.by]][j].document # op.docs[i].content

\* ceil(a / b) for b > 0.
CeilDiv(a, b) == (a + b - 1) \div b

\* An iteration of the while loop of chunk_text is about to run.
InLoop == pc = "loop" /\ start < Len(tokens)

\* With 0 <= chunk_overlap < chunk_size every iteration moves the window start
\* forward, and the chunks never number more than
\* ceil((n - overlap) / (chunk_size - overlap)).
C18_Advances ==
    (InLoop /\ chunk_overlap < chunk_size) =>
        /\ start' > start
        /\ Len(chunks') = Len(chunks) + 1
        /\ Len(chunks') <= CeilDiv(Len(tokens) - chunk_overlap,
                                   chunk_size - chunk_overlap)

\* With chunk_overlap >= chunk_size no iteration moves the start forward and
\* none leaves the loop: nothing in chunk_text or __init__ rejects the
\* configuration.
C18_Stuck ==
    (InLoop /\ chunk_overlap >= chunk_size) =>
        /\ start' <= start
        /\ pc' = "loop"
        /\ Len(chunks') = Len(chunks) + 1

\* C18 (termination): whenever 0 <= chunk_overlap < chunk_size, chunk_text
\* returns for every token sequence: the window start strictly increases on
\* every iteration and the loop is left after at most
\* ceil((n - overlap) / (chunk_size - overlap)) chunks.  For
\* chunk_overlap >= chunk_size, which nothing guards against, the start does
\* not advance and the loop is not left.
C18_Terminates ==
    /\ [][C18_Advances /\ C18_Stuck]_vars
    /\ [](Returned /\ chunk_overlap < chunk_size /\ windows # <<>> =>
            Len(chunks) <= CeilDiv(Len(tokens) - chunk_overlap,
                                   chunk_size - chunk_overlap))
    /\ ((pc = "loop" /\ chunk_overlap < chunk_size) ~> Returned)

\* chunk_text has returned after three or more iterations with a positive
\* overlap, the number of chunks being the bound exactly.
C18_Witness ==
    /\ Returned
    /\ chunk_overlap > 0
    /\ chunk_overlap < chunk_size
    /\ Len(chunks) >= 3
    /\ Len(chunks) = CeilDiv(Len(tokens) - chunk_overlap, chunk_size - chunk_overlap)

\* With the overlap above the chunk size the loop is still running after
\* MaxLoop iterations, its start below 0.
C18_WitnessStuck ==
    /\ pc = "loop"
    /\ chunk_overlap > chunk_size
    /\ Len(chunks) = MaxLoop
    /\ start < 0

\* C19 (embedding failure): a build_index that reads count 0 embeds every
\* document before its first insert, so when the embedding service fails one
\* of the calls the build ends with that error and has inserted nothing; the
\* collection exists and is attached and, no other build being in flight on
\* it, has count 0.  A build_index for the same repository name that reads
\* its count on the collection left so does not take the cache-hit path: it
\* reads count 0 and goes on to embed every document and insert the records
\* from scratch.
C19_Step ==
    /\ (op'.name = "build_index" /\ op'.embed_fault > 0) =>
          /\ op'.error = "embedding"
          /\ op'.existing_count = 0
          /\ op'.embed_calls = op'.embed_fault
          /\ op'.adds = <<>>
          /\ Exists(store', Cn(op'))
          /\ collection'[op'.by] = Cn(op')
          /\ store' = store
          /\ ~op'.overlapped => store'[Cn(op')] = <<>>
    /\ \A p \in Instances :
          (Counted(p) /\ store[collection[p]] = <<>>) =>
              /\ op' = NoOp
              /\ call'[p].pc = "embed"
              /\ call'[p].existing_count = 0
    /\ (BuiltFromEmpty(op') /\ ~op'.overlapped) =>
          /\ op'.embed_calls = Len(op'.docs)
          /\ op'.adds # <<>>
          /\ store'[Cn(op')] = RecordsOf(op'.docs)

C19_EmbeddingFailure == [][C19_Step]_vars

\* The embedding of the last of two or more documents has failed: the calls
\* before it were answered, nothing is stored, the collection is attached.
C19_Witness ==
    /\ op.name = "build_index"
    /\ op.error = "embedding"
    /\ op.embed_fault >= 2
    /\ op.embed_calls = op.embed_fault
    /\ collection[op.by] = Cn(op)
    /\ store[Cn(op)] = <<>>

\* The build that follows a build whose embedding failed: a build of the
\* collection from scratch has returned while the store holds no other record.
C19_WitnessRebuilt ==
    /\ BuiltFromEmpty(op)
    /\ ~op.overlapped
    /\ op.embed_calls = Len(op.docs)
    /\ store[Cn(op)] = RecordsOf(op.docs)

====
